---- MODULE Spec2Model ----
(***************************************************************************)
(* MSOffice2016URLandUpdateInfoProvider: an AutoPkg processor that reads   *)
(* Microsoft's AutoUpdate feed for one Office 2016 product and emits the   *)
(* download url, the version and some pkginfo of the latest update.        *)
(*                                                                         *)
(* Strings the code parses or formats (titles, versions, hex values,       *)
(* descriptions) are sequences of one-character strings; strings the code  *)
(* only compares or copies are TLA+ strings.  A Python dict is a function  *)
(* whose DOMAIN is its key set.  A call that may raise returns a record    *)
(* [exc, msg, ret]: exc is "none" or the exception's class.                *)
(***************************************************************************)
EXTENDS Integers, Sequences, FiniteSets, TLC

VARIABLES
    input,      \* the input variables the harness supplied for this run
    env,        \* self.env: input and output variables of the processor
    netCalls,   \* number of urlopen calls made so far
    pc,         \* position inside getInstallerinfo (or the method under call)
    exc,        \* the exception that ended the run: [exc, msg]
    data,       \* local: the downloaded bytes
    metadata,   \* local: the parsed plist, a list of entries
    item,       \* local: the chosen entry; {} while the name is unbound
    pkginfo,    \* local: the pkginfo dict under construction
    arg,        \* argument of a method called on its own
    ret         \* what that call returned or raised

vars == <<input, env, netCalls, pc, exc, data, metadata, item, pkginfo, arg, ret>>

----------------------------------------------------------------------------
(* Characters and Python's string/number conversions *)

DecDigits == <<"0", "1", "2", "3", "4", "5", "6", "7", "8", "9">>

HexLower == DecDigits \o <<"a", "b", "c", "d", "e", "f">>

HexUpper == DecDigits \o <<"A", "B", "C", "D", "E", "F">>

IsDigit(c) == \E i \in 1..Len(DecDigits) : DecDigits[i] = c

IsHexDigit(c) == \E i \in 1..Len(HexLower) : HexLower[i] = c \/ HexUpper[i] = c

DigitVal(c) == (CHOOSE i \in 1..Len(HexLower) : HexLower[i] = c \/ HexUpper[i] = c) - 1

NoExc == "none"

Returned(v) == [exc |-> NoExc, msg |-> <<>>, ret |-> v]

Raised(kind, m) == [exc |-> kind, msg |-> m, ret |-> <<>>]

RECURSIVE HexDigitsOf(_)
HexDigitsOf(n) ==
    IF n < 16 THEN <<HexLower[n + 1]>>
    ELSE HexDigitsOf(n \div 16) \o <<HexLower[(n % 16) + 1]>>

\* hex(value) of a non-negative int
hex(n) == <<"0", "x">> \o HexDigitsOf(n)

RECURSIVE str(_)
\* "%s" % n for a non-negative int: its decimal digits
str(n) ==
    IF n < 10 THEN <<DecDigits[n + 1]>>
    ELSE str(n \div 10) \o <<DecDigits[(n % 10) + 1]>>

RECURSIVE DigitsValue(_, _)
DigitsValue(s, base) ==
    IF s = <<>> THEN 0
    ELSE DigitsValue(SubSeq(s, 1, Len(s) - 1), base) * base + DigitVal(s[Len(s)])

\* int(s) and int(s, 16) on a string of letters and digits: ValueError unless
\* s is a non-empty run of digits of the base
int(s, base) ==
    IF /\ s # <<>>
       /\ \A i \in 1..Len(s) : IF base = 10 THEN IsDigit(s[i]) ELSE IsHexDigit(s[i])
    THEN Returned(DigitsValue(s, base))
    ELSE Raised("ValueError", <<>>)

\* s[a:b] with 0 <= a <= b, Python's clamping slice
Slice(s, a, b) == SubSeq(s, a + 1, IF b < Len(s) THEN b ELSE Len(s))

startswith(s, prefix) ==
    /\ Len(s) >= Len(prefix)
    /\ SubSeq(s, 1, Len(prefix)) = prefix

----------------------------------------------------------------------------
(* Values of the plist: an <integer> or a <string> *)

IntValue(n) == [type |-> "int", int |-> n, chars |-> <<>>]

StrValue(s) == [type |-> "str", int |-> 0, chars |-> s]

\* The local name version_str after the isinstance dispatch: {} when no
\* branch bound it
VersionStrOf(value) ==
    IF value.type = "int" THEN {Slice(hex(value.int), 2, Len(hex(value.int)))}
    ELSE IF value.type = "str" /\ startswith(value.chars, <<"0", "x">>)
         THEN {Slice(value.chars, 2, Len(value.chars))}
         ELSE {}

FormatVersion(major, minor, patch) ==
    str(major) \o <<".">> \o str(minor) \o <<".">> \o str(patch)

MutDecodeMajorHex(version_str) ==
    IF Len(version_str) = 1 THEN int(Slice(version_str, 0, 1), 16)
    ELSE IF Len(version_str) > 1 THEN int(Slice(version_str, 0, 2), 16)
    ELSE Returned(0)

DecodeMajor(version_str) ==
    IF Len(version_str) = 1 THEN int(Slice(version_str, 0, 1), 10)
    ELSE IF Len(version_str) > 1 THEN int(Slice(version_str, 0, 2), 10)
    ELSE Returned(0)

DecodeMinor(version_str) ==
    IF Len(version_str) > 2 THEN int(Slice(version_str, 2, 3), 16) ELSE Returned(0)

DecodePatch(version_str) ==
    IF Len(version_str) > 3 THEN int(Slice(version_str, 3, 4), 16) ELSE Returned(0)

valueToOSVersionString(value) ==
    LET bound == VersionStrOf(value) IN
    IF bound = {} THEN Raised("UnboundLocalError", <<"version_str">>)
    ELSE
        LET version_str == CHOOSE s \in bound : TRUE
            major == DecodeMajor(version_str)
            minor == DecodeMinor(version_str)
            patch == DecodePatch(version_str)
        IN  IF major.exc # NoExc \/ minor.exc # NoExc \/ patch.exc # NoExc
            THEN Raised("ProcessorError", <<"Unexpected value in version: ", value>>)
            ELSE Returned(FormatVersion(major.ret, minor.ret, patch.ret))

----------------------------------------------------------------------------
(* getVersion: re.search of the literal " Update " followed by the group   *)
(* 'version': digits, ".", digits, then any number of "." and one digit     *)

UpdateLiteral == <<" ", "U", "p", "d", "a", "t", "e", " ">>

RECURSIVE DigitRun(_, _)
\* a run of digits is greedy: the length of the run of digits of s that starts at index q
DigitRun(s, q) ==
    IF q <= Len(s) /\ IsDigit(s[q]) THEN 1 + DigitRun(s, q + 1) ELSE 0

RECURSIVE DotDigitRun(_, _)
\* the repeated group is greedy: how many times "." and one digit repeat from index q
DotDigitRun(s, q) ==
    IF q + 1 <= Len(s) /\ s[q] = "." /\ IsDigit(s[q + 1])
    THEN 1 + DotDigitRun(s, q + 2)
    ELSE 0

MutVersionLengthAt(s, q) ==
    LET d1 == DigitRun(s, q) IN
    IF d1 = 0 THEN 0 ELSE d1 + 2 * DotDigitRun(s, q + d1)

\* Length of the match of the group 'version' at index q of s; 0 when it does
\* not match there.  Giving back digits of a run never helps: the next character
\* would be a digit where the pattern wants "." or accepts anything.
VersionLengthAt(s, q) ==
    LET d1 == DigitRun(s, q) IN
    IF d1 = 0 \/ q + d1 > Len(s) \/ s[q + d1] # "." THEN 0
    ELSE LET d2 == DigitRun(s, q + d1 + 1) IN
         IF d2 = 0 THEN 0
         ELSE d1 + 1 + d2 + 2 * DotDigitRun(s, q + d1 + 1 + d2)

\* The start indexes at which the whole pattern matches
MatchStarts(s) ==
    {p \in 1..Len(s) :
        /\ p + Len(UpdateLiteral) - 1 <= Len(s)
        /\ SubSeq(s, p, p + Len(UpdateLiteral) - 1) = UpdateLiteral
        /\ VersionLengthAt(s, p + Len(UpdateLiteral)) > 0}

Min(S) == CHOOSE x \in S : \A y \in S : x <= y

\* re.search returns the leftmost match; group 'version' is what follows the
\* literal
getVersion(it) ==
    LET title == it["Title"] IN
    IF MatchStarts(title) = {}
    THEN Raised("ProcessorError",
                <<"Error validating Office 2016 version extracted from Title manifest value: ", title>>)
    ELSE LET q == Min(MatchStarts(title)) + Len(UpdateLiteral) IN
         Returned(SubSeq(title, q, q + VersionLengthAt(title, q) - 1))

----------------------------------------------------------------------------
(* sanityCheckExpectedTriggers and getInstallsItems *)

ExpectedTriggerCondition == <<"and", "Registered File">>

\* item.get("Triggers", {})
TriggersOf(it) ==
    IF "Triggers" \in DOMAIN it THEN it["Triggers"] ELSE [k \in {} |-> <<>>]

sanityCheckExpectedTriggers(it) ==
    IF ~("Trigger Condition" \in DOMAIN it
         /\ it["Trigger Condition"] = ExpectedTriggerCondition)
    THEN \* the message indexes item["Title"] and item["Trigger Condition"]
         IF "Trigger Condition" \in DOMAIN it
         THEN Raised("ProcessorError",
                     <<"Unexpected Trigger Condition in item ", it["Title"], ": ",
                       it["Trigger Condition"]>>)
         ELSE Raised("KeyError", <<"Trigger Condition">>)
    ELSE IF ~("Registered File" \in DOMAIN TriggersOf(it))
    THEN Raised("ProcessorError",
                <<"Missing expected 'and Registered File' Trigger in item ", it["Title"]>>)
    ELSE Returned(<<>>)

MutInstallsVersion(e, it) == Returned(e["version"])

\* the version getInstallsItems writes into the installs item
InstallsVersion(e, it) == getVersion(it)

InstallsPath(product) == <<"/Applications/Microsoft ", product, ".app">>

getInstallsItems(e, it) ==
    LET checked == sanityCheckExpectedTriggers(it)
        version == InstallsVersion(e, it)
    IN  IF checked.exc # NoExc THEN checked
        ELSE IF version.exc # NoExc THEN version
        ELSE Returned(<<[CFBundleShortVersionString |-> version.ret,
                         CFBundleVersion |-> version.ret,
                         path |-> InstallsPath(e["product"]),
                         type |-> "application"]>>)

----------------------------------------------------------------------------
(* Module constants and the inputs of a run *)

CULTURE_CODE == "0409"

PROD_DICT ==
    [Excel |-> "XCEL", OneNote |-> "ONMC", Outlook |-> "OPIM",
     PowerPoint |-> "PPT3", Word |-> "MSWD"]

\* BASE_URL % (CULTURE_CODE + prod_code)
BASE_URL(code) == <<"http://www.microsoft.com/mac/autoupdate/", code, "15.xml">>

Latest == <<"l", "a", "t", "e", "s", "t">>

\* the products a recipe may ask for: two of the table, one that is not in it
Products == {"Excel", "Word", "Access"}

VersionSelectors == {Latest, <<"1", "5", ".", "1", "0">>}

MaxDate == 2

MaxEntries == 2

GoodTitle ==
    <<"W", "o", "r", "d", " ", "U", "p", "d", "a", "t", "e", " ", "1", "5", ".", "1", "0">>

Titles == {GoodTitle, <<"W", "o", "r", "d", " ", "1", "5", ".", "1", "0">>}

Locations == {"http://download.microsoft.com/a.pkg", "http://download.microsoft.com/b.pkg"}

\* 4184 = 0x1058, 4240 = 0x1090, 10 = 0xa
OSValues == {<<IntValue(0), IntValue(4184)>>, <<IntValue(4240), IntValue(4184)>>,
             <<IntValue(4240), IntValue(0)>>, <<IntValue(0), IntValue(0)>>,
             <<IntValue(0), IntValue(10)>>}

\* An optional key is a set holding its value, or nothing
TriggerConditions == {{}, {ExpectedTriggerCondition}, {<<"or", "Registered File">>}}

TriggersDicts ==
    {{}, {[k \in {"Registered File"} |-> "rule"]}, {[k \in {"Application ID"} |-> "rule"]}}

DescriptionA == <<"f", "i", "x", "e", "s">>

DescriptionB == <<"n", "e", "w">>

LocalizedDicts ==
    {{},
     {[k \in {"1033"} |-> [k2 \in {"Short Description"} |-> DescriptionA]]},
     {[k \in {"1033"} |-> [k2 \in {"Short Description"} |-> DescriptionB]]},
     {[k \in {"1041"} |-> [k2 \in {"Short Description"} |-> DescriptionA]]}}

\* dict with key k when the optional value is there
Optional(k, opt) == [x \in (IF opt = {} THEN {} ELSE {k}) |-> CHOOSE v \in opt : TRUE]

\* One <dict> of the feed, from a choice of its fields
Entry(date, c) ==
    [x \in {"Date", "Title", "Location", "Max OS", "Min OS"} |->
        CASE x = "Date" -> date
          [] x = "Title" -> c.title
          [] x = "Location" -> c.location
          [] x = "Max OS" -> c.os[1]
          [] x = "Min OS" -> c.os[2]]
    @@ Optional("Trigger Condition", c.condition)
    @@ Optional("Triggers", c.triggers)
    @@ Optional("Localized", c.localized)

FieldChoices ==
    [title : Titles, location : Locations, os : OSValues,
     condition : TriggerConditions, triggers : TriggersDicts, localized : LocalizedDicts]

\* the entry Microsoft publishes today
Typical ==
    [title |-> GoodTitle, location |-> "http://download.microsoft.com/a.pkg",
     os |-> <<IntValue(0), IntValue(4184)>>,
     condition |-> {ExpectedTriggerCondition},
     triggers |-> {[k \in {"Registered File"} |-> "rule"]},
     localized |-> {[k \in {"1033"} |-> [k2 \in {"Short Description"} |-> DescriptionA]]}]

\* the entries of the feeds the model reads: they differ from the typical entry
\* in no more than one choice, and in their date
Entries ==
    {Entry(d, c) : d \in 1..MaxDate,
                   c \in {c \in FieldChoices :
                            \A f, g \in DOMAIN c :
                                (c[f] # Typical[f] /\ c[g] # Typical[g]) => f = g}}

FeedsOf(entries, n) == UNION {[1..k -> entries] : k \in 0..n}

\* what the server may send: bytes that are no plist, or a feed of up to n
\* entries
Documents(n) ==
    {[wellformed |-> FALSE, plist |-> <<>>]}
    \cup {[wellformed |-> TRUE, plist |-> f] : f \in FeedsOf(Entries, n)}

\* what urlopen and read give: the body, or an error of the transport
Answers(n) ==
    {[ok |-> FALSE, body |-> [wellformed |-> FALSE, plist |-> <<>>]]}
    \cup {[ok |-> TRUE, body |-> d] : d \in Documents(n)}

----------------------------------------------------------------------------
(* getInstallerinfo, one action per step *)

NoDict == [k \in {} |-> <<>>]

\* d[k] = v
Put(d, k, v) == [x \in DOMAIN d \cup {k} |-> IF x = k THEN v ELSE d[x]]

NoException == [exc |-> NoExc, msg |-> <<>>]

NoData == [wellformed |-> FALSE, plist |-> <<>>]

Pending == [exc |-> "pending", msg |-> <<>>, ret |-> <<>>]

Init ==
    /\ input \in [product : Products, version : VersionSelectors]
    /\ env = [k \in {"product", "version"} |->
                IF k = "product" THEN input.product ELSE input.version]
    /\ netCalls = 0
    /\ pc = "request"
    /\ exc = NoException
    /\ data = NoData
    /\ metadata = <<>>
    /\ item = {}
    /\ pkginfo = NoDict
    /\ arg = <<>>
    /\ ret = Pending

\* an exception leaves getInstallerinfo, main and the processor
Raise(kind, m) ==
    /\ pc' = "failed"
    /\ exc' = [exc |-> kind, msg |-> m]

\* PROD_DICT.get(produit): {} stands for None
ProdCode(e) ==
    IF e["product"] \in DOMAIN PROD_DICT THEN {PROD_DICT[e["product"]]} ELSE {}

BuildRequest ==
    /\ pc = "request"
    /\ IF ProdCode(env) = {}
       THEN \* CULTURE_CODE + None
            Raise("TypeError", <<"cannot concatenate 'str' and 'NoneType' objects">>)
       ELSE /\ pc' = "download"
            /\ exc' = exc
    /\ UNCHANGED <<input, env, netCalls, data, metadata, item, pkginfo, arg, ret>>

Download ==
    /\ pc = "download"
    /\ netCalls' = netCalls + 1
    /\ \E answer \in Answers(MaxEntries) :
        IF answer.ok
        THEN /\ data' = answer.body
             /\ pc' = "readplist"
             /\ exc' = exc
        ELSE /\ data' = data
             /\ Raise("ProcessorError",
                      <<"Can't download ", BASE_URL(CHOOSE c \in ProdCode(env) : TRUE)>>)
    /\ UNCHANGED <<input, env, metadata, item, pkginfo, arg, ret>>

ReadPlist ==
    /\ pc = "readplist"
    /\ IF data.wellformed
       THEN /\ metadata' = data.plist
            /\ pc' = "select"
            /\ exc' = exc
       ELSE /\ metadata' = metadata
            /\ Raise("ExpatError", <<>>)
    /\ UNCHANGED <<input, env, netCalls, data, item, pkginfo, arg, ret>>

MutInsert(s, x) ==
    LET before == {i \in 1..Len(s) : s[i]["Date"] < x["Date"]}
        n == Cardinality(before)
    IN  SubSeq(s, 1, n) \o <<x>> \o SubSeq(s, n + 1, Len(s))

\* x goes behind the elements whose key is not greater: equal keys keep
\* their order
Insert(s, x) ==
    LET before == {i \in 1..Len(s) : s[i]["Date"] <= x["Date"]}
        n == Cardinality(before)
    IN  SubSeq(s, 1, n) \o <<x>> \o SubSeq(s, n + 1, Len(s))

RECURSIVE sorted(_)
\* sorted(metadata, key=itemgetter('Date')): a stable ascending sort
sorted(s) ==
    IF s = <<>> THEN <<>>
    ELSE Insert(sorted(SubSeq(s, 1, Len(s) - 1)), s[Len(s)])

\* sorted_metadata[-1]
SelectLatest(md) ==
    LET sorted_metadata == sorted(md) IN sorted_metadata[Len(sorted_metadata)]

SelectItem ==
    /\ pc = "select"
    /\ IF env["version"] = Latest
       THEN IF metadata = <<>>
            THEN /\ item' = item
                 /\ Raise("IndexError", <<"list index out of range">>)
            ELSE /\ item' = {SelectLatest(metadata)}
                 /\ pc' = "seturl"
                 /\ exc' = exc
       ELSE /\ item' = item
            /\ pc' = "seturl"
            /\ exc' = exc
    /\ UNCHANGED <<input, env, netCalls, data, metadata, pkginfo, arg, ret>>

SetUrl ==
    /\ pc = "seturl"
    /\ IF item = {}
       THEN /\ env' = env
            /\ Raise("UnboundLocalError", <<"item">>)
       ELSE /\ env' = Put(env, "url", (CHOOSE it \in item : TRUE)["Location"])
            /\ pc' = "describe"
            /\ exc' = exc
    /\ UNCHANGED <<input, netCalls, data, metadata, item, pkginfo, arg, ret>>

Html(description) ==
    <<"<", "h", "t", "m", "l", ">">> \o description \o <<"<", "/", "h", "t", "m", "l", ">">>

\* the entry whose Localized dict is read
DescribedEntry(md, it) == md[1]

Describe ==
    /\ pc = "describe"
    /\ LET it == CHOOSE i \in item : TRUE
           described == DescribedEntry(metadata, it)
       IN  IF "Localized" \notin DOMAIN described
           THEN /\ pkginfo' = pkginfo
                /\ Raise("TypeError", <<"'NoneType' object has no attribute '__getitem__'">>)
           ELSE IF "1033" \notin DOMAIN described["Localized"]
           THEN /\ pkginfo' = pkginfo
                /\ Raise("KeyError", <<"1033">>)
           ELSE /\ pkginfo' =
                     Put(Put(NoDict, "description",
                             Html(described["Localized"]["1033"]["Short Description"])),
                         "display_name", it["Title"])
                /\ pc' = "osversions"
                /\ exc' = exc
    /\ UNCHANGED <<input, env, netCalls, data, metadata, item, arg, ret>>

MutWithOSVersion(p, k, v) == Put(p, k, v)

\* if v != "0.0.0": pkginfo[k] = v
WithOSVersion(p, k, v) == IF v # <<"0", ".", "0", ".", "0">> THEN Put(p, k, v) ELSE p

OSVersions ==
    /\ pc = "osversions"
    /\ LET it == CHOOSE i \in item : TRUE
           max_os == valueToOSVersionString(it["Max OS"])
           min_os == valueToOSVersionString(it["Min OS"])
       IN  IF max_os.exc # NoExc
           THEN /\ pkginfo' = pkginfo
                /\ Raise(max_os.exc, max_os.msg)
           ELSE IF min_os.exc # NoExc
           THEN /\ pkginfo' = pkginfo
                /\ Raise(min_os.exc, min_os.msg)
           ELSE /\ pkginfo' =
                     WithOSVersion(WithOSVersion(pkginfo, "maximum_os_version", max_os.ret),
                                   "minimum_os_version", min_os.ret)
                /\ pc' = "installs"
                /\ exc' = exc
    /\ UNCHANGED <<input, env, netCalls, data, metadata, item, arg, ret>>

Installs ==
    /\ pc = "installs"
    /\ LET installs_items == getInstallsItems(env, CHOOSE i \in item : TRUE)
       IN  IF installs_items.exc # NoExc
           THEN /\ pkginfo' = pkginfo
                /\ Raise(installs_items.exc, installs_items.msg)
           ELSE /\ pkginfo' = IF installs_items.ret # <<>>
                              THEN Put(pkginfo, "installs", installs_items.ret)
                              ELSE pkginfo
                /\ pc' = "emit"
                /\ exc' = exc
    /\ UNCHANGED <<input, env, netCalls, data, metadata, item, arg, ret>>

Emit ==
    /\ pc = "emit"
    /\ LET it == CHOOSE i \in item : TRUE
           version == getVersion(it)
       IN  IF version.exc # NoExc
           THEN /\ env' = env
                /\ Raise(version.exc, version.msg)
           ELSE /\ env' = Put(Put(Put(env, "version", version.ret),
                                  "additional_pkginfo", pkginfo),
                              "url", it["Location"])
                /\ pc' = "done"
                /\ exc' = exc
    /\ UNCHANGED <<input, netCalls, data, metadata, item, pkginfo, arg, ret>>

Next ==
    \/ BuildRequest
    \/ Download
    \/ ReadPlist
    \/ SelectItem
    \/ SetUrl
    \/ Describe
    \/ OSVersions
    \/ Installs
    \/ Emit

Spec == Init /\ [][Next]_vars

----------------------------------------------------------------------------
(* The methods called on their own, on arguments drawn from bounded sets *)

MaxValue == 65535

MaxStrLen == 4

MaxTitlePrefix == 2

MaxVersionChars == 9

MaxSelectDate == 3

MaxSelectEntries == 3

RECURSIVE Flatten(_)
Flatten(ss) == IF ss = <<>> THEN <<>> ELSE ss[1] \o Flatten(Tail(ss))

\* a run that has downloaded nothing yet, asked for a known product
InitCall(products, selectors) ==
    /\ input \in [product : products, version : selectors]
    /\ env = [k \in {"product", "version"} |->
                IF k = "product" THEN input.product ELSE input.version]
    /\ netCalls = 0
    /\ exc = NoException
    /\ data = NoData
    /\ item = {}
    /\ pkginfo = NoDict

Return(fn, result) ==
    /\ ret' = result
    /\ pc' = fn
    /\ UNCHANGED <<input, env, netCalls, exc, data, metadata, item, pkginfo, arg>>

\* valueToOSVersionString on every int up to MaxValue and on short strings
CodecArgs(maxValue, maxLen) ==
    {IntValue(n) : n \in 0..maxValue}
    \cup {StrValue(s) : s \in FeedsOf({"0", "x", "1", "5", "a", "g"}, maxLen)}

InitCodec ==
    /\ InitCall({"Word"}, {Latest})
    /\ pc = "call valueToOSVersionString"
    /\ metadata = <<>>
    /\ arg \in CodecArgs(MaxValue, MaxStrLen)
    /\ ret = Pending

CallValueToOSVersionString ==
    /\ pc = "call valueToOSVersionString"
    /\ Return("returned valueToOSVersionString", valueToOSVersionString(arg))

SpecCodec == InitCodec /\ [][CallValueToOSVersionString]_vars

\* getVersion on titles made of " Update ", letters, digits and dots
TitleArgs(maxPrefix, maxChars) ==
    {[k \in {"Title"} |-> Flatten(pre) \o tail] :
        pre \in FeedsOf({UpdateLiteral, <<"x">>, <<"1">>, <<".">>}, maxPrefix),
        tail \in FeedsOf({"1", "."}, maxChars)}

InitTitle ==
    /\ InitCall({"Word"}, {Latest})
    /\ pc = "call getVersion"
    /\ metadata = <<>>
    /\ arg \in TitleArgs(MaxTitlePrefix, MaxVersionChars)
    /\ ret = Pending

CallGetVersion ==
    /\ pc = "call getVersion"
    /\ Return("returned getVersion", getVersion(arg))

SpecTitle == InitTitle /\ [][CallGetVersion]_vars

\* sanityCheckExpectedTriggers and getInstallsItems on every trigger shape
TriggerArgs ==
    {Entry(d, c) : d \in 1..MaxDate,
                   c \in {c \in FieldChoices :
                            /\ c.location = Typical.location
                            /\ c.os = Typical.os
                            /\ c.localized = Typical.localized}}

InitTrigger ==
    /\ InitCall({"Excel", "Word"}, {Latest})
    /\ pc \in {"call sanityCheckExpectedTriggers", "call getInstallsItems"}
    /\ metadata = <<>>
    /\ arg \in TriggerArgs
    /\ ret = Pending

CallSanityCheckExpectedTriggers ==
    /\ pc = "call sanityCheckExpectedTriggers"
    /\ Return("returned sanityCheckExpectedTriggers", sanityCheckExpectedTriggers(arg))

CallGetInstallsItems ==
    /\ pc = "call getInstallsItems"
    /\ Return("returned getInstallsItems", getInstallsItems(env, arg))

NextTrigger == CallSanityCheckExpectedTriggers \/ CallGetInstallsItems

SpecTrigger == InitTrigger /\ [][NextTrigger]_vars

\* the selection step of getInstallerinfo on feeds whose entries differ in
\* date and location only
SelectEntries ==
    {Entry(d, [Typical EXCEPT !.location = l]) : d \in 1..MaxSelectDate, l \in Locations}

InitSelect ==
    /\ InitCall({"Word"}, VersionSelectors)
    /\ pc = "select"
    /\ metadata \in FeedsOf(SelectEntries, MaxSelectEntries)
    /\ arg = <<>>
    /\ ret = Pending

SpecSelect == InitSelect /\ [][SelectItem]_vars

----------------------------------------------------------------------------
(* Properties *)

Succeeded == pc = "done"

Failed == pc = "failed"

TheItem == CHOOSE it \in item : TRUE

\* the pkginfo a successful run hands to the harness
Emitted == env["additional_pkginfo"]

\* C1: a run that fails has set none of url, version, additional_pkginfo: the
\* outputs are as they were before the call.
C1_NoOutputOnFailure ==
    Failed =>
        /\ "url" \notin DOMAIN env
        /\ "additional_pkginfo" \notin DOMAIN env
        /\ env["version"] = input.version

\* s matches ^\d+\.\d+\.\d+$: digits, a dot, digits, a dot, digits
IsDottedTriple(s) ==
    \E i, j \in 1..Len(s) :
        /\ 1 < i /\ i + 1 < j /\ j < Len(s)
        /\ \A k \in 1..Len(s) : IF k \in {i, j} THEN s[k] = "." ELSE IsDigit(s[k])

RECURSIVE LeadingHexPair(_)
\* the number written by the first two hex digits of n (by the only one when
\* n < 16)
LeadingHexPair(n) == IF n < 256 THEN n ELSE LeadingHexPair(n \div 16)

\* one of the first two hex digits of n is a letter a-f
LeadingHexLetter(n) ==
    LET top == LeadingHexPair(n) IN
    IF top < 16 THEN top >= 10 ELSE top \div 16 >= 10 \/ top % 16 >= 10

DecodedInt == pc = "returned valueToOSVersionString" /\ arg.type = "int"

\* C2 as stated: on every int of the range valueToOSVersionString returns a
\* major.minor.patch string and never raises.
C2_DecodeAlwaysReturns ==
    DecodedInt => ret.exc = NoExc /\ IsDottedTriple(ret.ret)

\* C2 as amended: on every int of the range valueToOSVersionString either
\* returns a major.minor.patch string of three decimal numbers or raises
\* ProcessorError, and it raises exactly when one of the first two hex digits
\* of the int is a letter a-f.
C2_DecodeReturnsOrRejects ==
    DecodedInt =>
        /\ ret.exc \in {NoExc, "ProcessorError"}
        /\ ret.exc = "ProcessorError" <=> LeadingHexLetter(arg.int)
        /\ ret.exc = NoExc => IsDottedTriple(ret.ret)

C2_Witness ==
    /\ DecodedInt
    /\ arg.int = 4184
    /\ ret.exc = NoExc
    /\ ret.ret = <<"1", "0", ".", "5", ".", "8">>

\* C3: a run for a product that is not in the table fails with a
\* ProcessorError, and no network request has been made.
C3_UnknownProductError ==
    input.product \notin DOMAIN PROD_DICT =>
        /\ netCalls = 0
        /\ ~Succeeded
        /\ Failed => exc.exc = "ProcessorError"

\* C4: a run whose selector is not "latest" and whose feed was read fails
\* with the processor's own error for the selector, never with another kind
\* of error, and never goes on with some entry.
C4_UnsupportedSelectorError ==
    (input.version # Latest /\ data.wellformed) =>
        /\ item = {}
        /\ ~Succeeded
        /\ Failed => exc.exc = "ProcessorError"

\* C5: the description of a successful run is the locale 1033 Short
\* Description of the selected entry, the one that gives url and
\* display_name, wrapped in <html>.
C5_DescriptionOfSelectedEntry ==
    (/\ Succeeded
     /\ "Localized" \in DOMAIN TheItem
     /\ "1033" \in DOMAIN TheItem["Localized"]) =>
        /\ env["url"] = TheItem["Location"]
        /\ Emitted["display_name"] = TheItem["Title"]
        /\ Emitted["description"] = Html(TheItem["Localized"]["1033"]["Short Description"])

Selected == pc = "seturl" /\ item # {}

DatesDistinct(md) ==
    \A i, j \in 1..Len(md) : md[i]["Date"] = md[j]["Date"] => i = j

\* C6: the entry selected for "latest" has a date not less than any entry's,
\* is the last of the list among those of the greatest date, and, when the
\* dates are distinct, is the same for every permutation of the list.
C6_SelectsLastOfLatest ==
    Selected =>
        LET n == Len(metadata)
            last == CHOOSE i \in 1..n :
                        /\ \A j \in 1..n : metadata[j]["Date"] <= metadata[i]["Date"]
                        /\ \A j \in (i + 1)..n : metadata[j]["Date"] < metadata[i]["Date"]
        IN  /\ n > 0
            /\ \A j \in 1..n : metadata[j]["Date"] <= TheItem["Date"]
            /\ TheItem = metadata[last]
            /\ DatesDistinct(metadata) =>
                   \A perm \in Permutations(1..n) :
                       SelectLatest([i \in 1..n |-> metadata[perm[i]]]) = TheItem

C6_Witness ==
    /\ Selected
    /\ Len(metadata) = 3
    /\ metadata[1]["Date"] = 2 /\ metadata[2]["Date"] = 2 /\ metadata[3]["Date"] = 1
    /\ metadata[1]["Location"] # metadata[2]["Location"]
    /\ TheItem = metadata[2]

Zero == <<"0", ".", "0", ".", "0">>

\* C7: after a successful run pkginfo has maximum_os_version (minimum_os_version)
\* exactly when the decoded Max OS (Min OS) of the selected entry is not
\* "0.0.0", the field is that decoded string, and "0.0.0" is in neither
\* field; Max OS = 0 and Min OS = 4184 give no maximum and minimum "10.5.8".
C7_OSVersionFields ==
    Succeeded =>
        LET max_os == valueToOSVersionString(TheItem["Max OS"])
            min_os == valueToOSVersionString(TheItem["Min OS"])
        IN  /\ max_os.exc = NoExc /\ min_os.exc = NoExc
            /\ "maximum_os_version" \in DOMAIN Emitted <=> max_os.ret # Zero
            /\ "minimum_os_version" \in DOMAIN Emitted <=> min_os.ret # Zero
            /\ "maximum_os_version" \in DOMAIN Emitted
                   => Emitted["maximum_os_version"] = max_os.ret
            /\ "minimum_os_version" \in DOMAIN Emitted
                   => Emitted["minimum_os_version"] = min_os.ret
            /\ (TheItem["Max OS"] = IntValue(0) /\ TheItem["Min OS"] = IntValue(4184))
                   => /\ "maximum_os_version" \notin DOMAIN Emitted
                      /\ "minimum_os_version" \in DOMAIN Emitted
                      /\ Emitted["minimum_os_version"] = <<"1", "0", ".", "5", ".", "8">>

C7_Witness ==
    /\ Succeeded
    /\ Len(metadata) = 2
    /\ TheItem["Max OS"] = IntValue(0)
    /\ TheItem["Min OS"] = IntValue(4184)
    /\ DOMAIN Emitted = {"description", "display_name", "minimum_os_version", "installs"}

\* the number of dot-separated components of s
Components(s) == Cardinality({i \in 1..Len(s) : s[i] = "."}) + 1

\* digits and single dots between them
IsDottedNumeric(s) ==
    /\ s # <<>>
    /\ \A i \in 1..Len(s) : IsDigit(s[i]) \/ s[i] = "."
    /\ s[1] # "." /\ s[Len(s)] # "."
    /\ \A i \in 1..(Len(s) - 1) : ~(s[i] = "." /\ s[i + 1] = ".")

\* v stands in title right behind an occurrence of " Update "
FollowsUpdate(title, v) ==
    \E p \in 1..Len(title) :
        /\ p + Len(UpdateLiteral) + Len(v) - 1 <= Len(title)
        /\ SubSeq(title, p, p + Len(UpdateLiteral) - 1) = UpdateLiteral
        /\ SubSeq(title, p + Len(UpdateLiteral), p + Len(UpdateLiteral) + Len(v) - 1) = v

ExtractedVersion == pc = "returned getVersion" /\ ret.exc = NoExc

\* C8 as stated: a version getVersion returns is a dotted numeric string of
\* 2 to 4 components that follows " Update " in the title.
C8_VersionOfTwoToFourComponents ==
    ExtractedVersion =>
        /\ IsDottedNumeric(ret.ret)
        /\ Components(ret.ret) >= 2 /\ Components(ret.ret) <= 4
        /\ FollowsUpdate(arg["Title"], ret.ret)

\* C8 as amended: a version getVersion returns is a dotted numeric string of
\* at least 2 components, with no upper limit on their number, that follows
\* an occurrence of " Update " in the title.
C8_VersionOfTwoOrMoreComponents ==
    ExtractedVersion =>
        /\ IsDottedNumeric(ret.ret)
        /\ Components(ret.ret) >= 2
        /\ FollowsUpdate(arg["Title"], ret.ret)

C8_Witness ==
    /\ ExtractedVersion
    /\ arg["Title"] = UpdateLiteral \o <<"1", ".", "1", ".", "1", ".", "1", ".", "1">>
    /\ Components(ret.ret) = 5

\* C9: after a successful run pkginfo.installs is a list of one descriptor
\* whose two bundle versions are the emitted version, whose path is
\* /Applications/Microsoft <product>.app and whose type is application.
C9_InstallsDescriptor ==
    Succeeded =>
        /\ "installs" \in DOMAIN Emitted
        /\ Len(Emitted["installs"]) = 1
        /\ Emitted["installs"][1] =
               [CFBundleShortVersionString |-> env["version"],
                CFBundleVersion |-> env["version"],
                path |-> <<"/Applications/Microsoft ", input.product, ".app">>,
                type |-> "application"]

C9_Witness ==
    /\ Succeeded
    /\ input.product = "Excel"
    /\ env["version"] = <<"1", "5", ".", "1", "0">>
    /\ Emitted["installs"][1].CFBundleVersion = <<"1", "5", ".", "1", "0">>
    /\ Emitted["installs"][1].path = <<"/Applications/Microsoft ", "Excel", ".app">>

ExpectedShape(it) ==
    /\ "Trigger Condition" \in DOMAIN it
    /\ it["Trigger Condition"] = <<"and", "Registered File">>
    /\ "Triggers" \in DOMAIN it
    /\ "Registered File" \in DOMAIN it["Triggers"]

====
